---- MODULE Spec2Model ----
(***************************************************************************)
(* A model of the retrieval-and-decision pipeline of the HackRx document   *)
(* API: the rule engine of query_handler.py, the vector store of           *)
(* vector_store.py, the chunker of document_processor.py and the request   *)
(* handler of main.py.                                                     *)
(*                                                                         *)
(* Text is modelled as a sequence of atoms: a word or phrase (lower-cased, *)
(* every pattern of the code is used with re.IGNORECASE or on lower-cased  *)
(* input), a run of digits, a comma, a period or a newline.  The regular   *)
(* expressions of the code are translated to searches over such atoms.     *)
(***************************************************************************)
EXTENDS Integers, Sequences, FiniteSets, TLC

VARIABLES
    \* ---- QueryHandler.make_decision (query_handler.py)
    rawq,        \* the free-text query handed to parse_query, or None
    sq,          \* the StructuredQuery handed to make_decision
    chunks,      \* relevant_chunks, the list of {text, score, metadata}
    response,    \* the response dict make_decision builds
    pc,          \* position in make_decision / process_query
    \* ---- VectorStore (vector_store.py)
    index,       \* the vectors of the faiss.IndexFlatIP, in insertion order
    documents,   \* self.documents
    metadata,    \* self.metadata
    pickles,     \* the pickle files on disk, by path
    faiss_file,  \* the file "faiss_index.bin" on disk
    call,        \* the most recent VectorStore call: its arguments and result
    saved,       \* what the last save_index wrote, until it is loaded back
    \* ---- process_query (main.py)
    http,        \* what the handler answered
    \* ---- DocumentProcessor.process_document (document_processor.py)
    raw_text,        \* the text extracted from the file
    later,           \* the structured_sections still to be chunked
    sentences,       \* the sentences of the current section still to be packed
    current_chunk,   \* the running buffer
    final_chunks,    \* the chunks emitted so far
    cpc,             \* position in process_document
    \* ---- the request handlers on the event loop (main.py)
    tasks,       \* the coroutines of the requests being served
    current,     \* the coroutine the event loop is running, or None
    seen         \* what the last completed search read of the store, or None

dvars == <<rawq, sq, chunks, response, pc>>
svars == <<index, documents, metadata, pickles, faiss_file, call, saved>>
cvars == <<raw_text, later, sentences, current_chunk, final_chunks, cpc>>
lvars == <<tasks, current, seen>>
vars == <<dvars, svars, http, cvars, lvars>>

\* Optional[T]: None, or a one-element tuple holding the value.
None == <<>>
Some(x) == <<x>>

\* All sequences over S of length at most n.
SeqsUpTo(S, n) == UNION {[1..k -> S] : k \in 0..n}

Max(a, b) == IF a >= b THEN a ELSE b
Min(a, b) == IF a <= b THEN a ELSE b

\* The least element of a non-empty set of integers.
Least(S) == CHOOSE x \in S : \A y \in S : x <= y

(***************************************************************************)
(* Text atoms.                                                             *)
(***************************************************************************)
W(s) == [t |-> "w", s |-> s, n |-> 0, w |-> 0]       \* a word or phrase
D(n, w) == [t |-> "d", s |-> "", n |-> n, w |-> w]   \* a run of w digits of value n
Dot == [t |-> ".", s |-> ".", n |-> 0, w |-> 0]
Comma == [t |-> ",", s |-> ",", n |-> 0, w |-> 0]
NL == [t |-> "nl", s |-> "", n |-> 0, w |-> 0]        \* "\n"

\* The patterns a phrase contains as a substring besides itself.
Sub(s) ==
    CASE s = "knee surgery" -> {"knee surgery", "knee", "surgery"}
      [] s = "knee replacement" -> {"knee replacement", "knee"}
      [] s = "joint pain" -> {"joint pain", "joint"}
      [] s = "heart bypass" -> {"heart bypass", "heart", "bypass"}
      [] s = "age limit" -> {"age limit", "limit"}
      [] s = "year-old" -> {"year-old", "year", "old"}
      [] s = "months" -> {"months", "month"}
      [] OTHER -> {s}

\* re: the atom contains one of the alternatives of a pattern.
HasAny(a, alts) == a.t = "w" /\ Sub(a.s) \cap alts # {}

\* No atom of kind t strictly between positions i and j.
NoneBetween(txt, i, j, t) == \A m \in (i + 1)..(j - 1) : txt[m].t # t

\* The policy clauses the retrieved chunks are drawn from.
ClauseNames == {"knee", "kneeSurgery", "joint", "rupees", "network", "age", "waiting"}

ClauseText(c) ==
    CASE c = "knee" ->         \* "Knee surgeries are covered up to 100,000."
            <<W("knee"), W("covered"), D(100, 3), Comma, D(0, 3), Dot>>
      [] c = "kneeSurgery" ->  \* "Knee surgery: coverage of 150,000."
            <<W("knee surgery"), W("coverage"), D(150, 3), Comma, D(0, 3), Dot>>
      [] c = "joint" ->        \* "Joint replacement has a limit of 200,000."
            <<W("joint"), W("limit"), D(200, 3), Comma, D(0, 3), Dot>>
      [] c = "rupees" ->       \* "Knee surgeries are covered up to Rs. 1,00,000"
            <<W("knee"), W("covered"), W("rs"), Dot,
              D(1, 1), Comma, D(0, 2), Comma, D(0, 3)>>
      [] c = "network" ->      \* "Network hospitals: Mumbai, Delhi."
            <<W("network hospitals"), W("mumbai"), Comma, W("delhi"), Dot>>
      [] c = "age" ->          \* "Age limit: 18 to 65 years."
            <<W("age limit"), D(18, 2), W("to"), D(65, 2), W("years"), Dot>>
      [] c = "waiting" ->      \* "Waiting period of 24 months applies."
            <<W("waiting period"), D(24, 2), W("months"), Dot>>

(***************************************************************************)
(* QueryHandler.parse_query: the free-text query is lower-cased and each   *)
(* field is extracted by its own patterns.                                 *)
(***************************************************************************)
\* A digit run directly followed by the letter m or f ("45m", "30f").
IsShorthand(query, i, letters) ==
    /\ query[i].t = "d"
    /\ i + 1 <= Len(query)
    /\ query[i + 1].t = "w"
    /\ query[i + 1].s \in letters

_extract_age(query) ==
    LET n == Len(query)
        P1 == {i \in 1..n : /\ query[i].t = "d"
                            /\ i + 1 <= n
                            /\ HasAny(query[i + 1], {"year-old"})}
        P2 == {i \in 1..n : /\ query[i].t = "d"
                            /\ i > 1
                            /\ HasAny(query[i - 1], {"age"})}
        P3 == {i \in 1..n : IsShorthand(query, i, {"m", "f"})}
        P4 == {i \in 1..n : /\ query[i].t = "d"
                            /\ query[i].w = 2
                            /\ ~IsShorthand(query, i, {"m", "f"})}
        first == IF P1 # {} THEN P1
                 ELSE IF P2 # {} THEN P2
                 ELSE IF P3 # {} THEN P3
                 ELSE P4
    IN  IF first = {} THEN None
        ELSE LET age == query[Least(first)].n
             IN  IF 18 <= age /\ age <= 100 THEN Some(age) ELSE None

_extract_gender(query) ==
    LET n == Len(query)
    IN  IF \E i \in 1..n : \/ HasAny(query[i], {"female", "woman", "girl"})
                           \/ IsShorthand(query, i, {"f"})
        THEN Some("female")
        ELSE IF \E i \in 1..n : \/ HasAny(query[i], {"male", "man", "boy"})
                                \/ IsShorthand(query, i, {"m"})
        THEN Some("male")
        ELSE None

\* `term in query`: the term is a substring of the query.
InQuery(query, terms) == \E i \in 1..Len(query) : HasAny(query[i], terms)

\* QueryHandler.__init__
coverage_keywords(category) ==
    CASE category = "knee" -> {"knee", "orthopedic", "joint"}
      [] category = "cardiac" -> {"cardiac", "heart", "bypass"}
      [] category = "eye" -> {"eye", "cataract", "lasik"}

Categories == <<"knee", "cardiac", "eye">>

procedure_map(procedure) ==
    CASE procedure = "knee surgery" ->
            {"knee surgery", "knee replacement", "acl surgery", "meniscus repair"}
      [] procedure = "cardiac surgery" ->
            {"cardiac surgery", "heart bypass", "angioplasty", "stent placement"}
      [] procedure = "eye surgery" ->
            {"eye surgery", "cataract", "lasik", "retinal detachment"}

Procedures == <<"knee surgery", "cardiac surgery", "eye surgery">>

_extract_procedure(query) ==
    LET exact == {k \in 1..3 : InQuery(query, procedure_map(Procedures[k]))}
        keyword == {k \in 1..3 : InQuery(query, coverage_keywords(Categories[k]))}
    IN  IF exact # {} THEN Some(Procedures[Least(exact)])
        ELSE IF keyword # {} THEN Some(Categories[Least(keyword)])
        ELSE None

Cities == <<"mumbai", "delhi", "pune", "bangalore">>

CityAliases(city) ==
    CASE city = "mumbai" -> {"mumbai", "bombay"}
      [] city = "delhi" -> {"delhi", "new delhi"}
      [] city = "pune" -> {"pune", "puna"}
      [] city = "bangalore" -> {"bangalore", "bengaluru"}

_extract_location(query) ==
    LET hit == {k \in 1..4 : InQuery(query, CityAliases(Cities[k]))}
    IN  IF hit # {} THEN Some(Cities[Least(hit)]) ELSE None

\* The duration is the string "<N> months"; it is modelled by N, which is
\* what int(policy_duration.split()[0]) reads back from it.
_extract_policy_duration(query) ==
    LET n == Len(query)
        Unit(u) == {i \in 1..n : /\ query[i].t = "d"
                                 /\ i + 1 <= n
                                 /\ HasAny(query[i + 1], {u})}
        P3 == {i \in 1..n : /\ query[i].t = "d"
                            /\ i > 1
                            /\ HasAny(query[i - 1], {"policy"})}
    IN  IF Unit("month") # {} THEN Some(query[Least(Unit("month"))].n)
        ELSE IF Unit("year") # {} THEN Some(query[Least(Unit("year"))].n * 12)
        ELSE IF P3 # {} THEN Some(query[Least(P3)].n)
        ELSE None

StructuredQuery(age, gender, procedure, location, policy_duration) ==
    [age |-> age, gender |-> gender, procedure |-> procedure,
     location |-> location, policy_duration |-> policy_duration]

parse_query(query) ==
    StructuredQuery(_extract_age(query), _extract_gender(query),
                    _extract_procedure(query), _extract_location(query),
                    _extract_policy_duration(query))

(***************************************************************************)
(* QueryHandler.make_decision and its three checks.                        *)
(***************************************************************************)
\* A chunk as VectorStore.search returns it; its text is named by its clause.
Chunk(text, score, meta) == [text |-> text, score |-> score, metadata |-> meta]

Metadata(filename, chunk_id) == [filename |-> filename, chunk_id |-> chunk_id]

\* "\n".join([chunk['text'] for chunk in relevant_chunks])
RECURSIVE policy_text(_)
policy_text(relevant_chunks) ==
    IF relevant_chunks = <<>> THEN <<>>
    ELSE IF Len(relevant_chunks) = 1 THEN ClauseText(relevant_chunks[1].text)
    ELSE ClauseText(relevant_chunks[1].text) \o <<NL>> \o policy_text(Tail(relevant_chunks))

\* response["justification"] is a list of strings until it is joined into a str.
JList(items) == [kind |-> "list", items |-> items, text |-> ""]
JStr(text) == [kind |-> "str", items |-> <<>>, text |-> text]

InitialResponse ==
    [decision |-> "rejected", amount |-> 0, justification |-> JList(<<>>),
     clauses_used |-> <<>>]

\* str.capitalize() of the procedure and city names.
Capitalize(s) ==
    CASE s = "knee surgery" -> "Knee surgery"
      [] s = "cardiac surgery" -> "Cardiac surgery"
      [] s = "eye surgery" -> "Eye surgery"
      [] s = "knee" -> "Knee"
      [] s = "cardiac" -> "Cardiac"
      [] s = "eye" -> "Eye"
      [] s = "mumbai" -> "Mumbai"
      [] s = "delhi" -> "Delhi"
      [] s = "pune" -> "Pune"
      [] s = "bangalore" -> "Bangalore"
      [] s = "chennai" -> "Chennai"
      [] OTHER -> s

\* re.search(r'age limit.*?(\d+)[^\d]+(\d+)', policy_text): the first digit run
\* after "age limit" on its line, and the digit run that follows it anywhere.
age_limit_match(txt) ==
    LET n == Len(txt)
        First(i) == {j \in (i + 1)..n : txt[j].t = "d" /\ NoneBetween(txt, i, j, "nl")
                                         /\ NoneBetween(txt, i, j, "d")}
        Second(j) == {k \in (j + 1)..n : txt[k].t = "d"}
        Starts == {i \in 1..n : /\ HasAny(txt[i], {"age limit"})
                                /\ First(i) # {}
                                /\ Second(Least(First(i))) # {}}
    IN  IF Starts = {} THEN None
        ELSE LET j == Least(First(Least(Starts)))
             IN  Some([min_age |-> txt[j].n, max_age |-> txt[Least(Second(j))].n])

\* re.search(r'waiting period.*?(\d+)\s*months', policy_text)
waiting_period_match(txt) ==
    LET n == Len(txt)
        Months(i) == {j \in (i + 1)..n : /\ txt[j].t = "d"
                                          /\ NoneBetween(txt, i, j, "nl")
                                          /\ j + 1 <= n
                                          /\ HasAny(txt[j + 1], {"months"})}
        Starts == {i \in 1..n : HasAny(txt[i], {"waiting period"}) /\ Months(i) # {}}
    IN  IF Starts = {} THEN None
        ELSE Some(txt[Least(Months(Least(Starts)))].n)

\* The group (\d{1,3}(?:,\d{3})*) read from the digit run at position e on: every
\* following ",ddd" is taken.  Digit runs of the modelled texts have at most
\* three digits.
RECURSIVE AmountFrom(_, _, _)
AmountFrom(txt, e, value) ==
    IF /\ e + 2 <= Len(txt)
       /\ txt[e + 1].t = ","
       /\ txt[e + 2].t = "d"
       /\ txt[e + 2].w = 3
    THEN AmountFrom(txt, e + 2, value * 1000 + txt[e + 2].n)
    ELSE [value |-> value, end |-> e]

\* re.finditer(coverage_pattern, policy_text): the amounts of the successive
\* non-overlapping matches of
\*   (?:kw1|kw2|..)[^.]*?(?:covered|coverage|limit)[^.]*?(\d{1,3}(?:,\d{3})*)
\* from position pos on.
RECURSIVE coverage_matches(_, _, _)
coverage_matches(txt, keywords, pos) ==
    LET n == Len(txt)
        Cov(i) == {j \in (i + 1)..n : /\ HasAny(txt[j], {"covered", "coverage", "limit"})
                                       /\ NoneBetween(txt, i, j, ".")}
        Dig(j) == {k \in (j + 1)..n : txt[k].t = "d" /\ NoneBetween(txt, j, k, ".")}
        Starts == {i \in pos..n : /\ HasAny(txt[i], keywords)
                                  /\ Cov(i) # {}
                                  /\ Dig(Least(Cov(i))) # {}}
    IN  IF Starts = {} THEN <<>>
        ELSE LET k == Least(Dig(Least(Cov(Least(Starts)))))
                 m == AmountFrom(txt, k, txt[k].n)
             IN  <<m.value>> \o coverage_matches(txt, keywords, m.end + 1)

\* re.search(r'network (?:hospitals|providers).*?<location>', policy_text)
network_match(txt, location) ==
    \E i, j \in 1..Len(txt) :
        /\ i < j
        /\ HasAny(txt[i], {"network hospitals", "network providers"})
        /\ HasAny(txt[j], {location})
        /\ NoneBetween(txt, i, j, "nl")

_check_basic_eligibility(query, txt, resp) ==
    LET am == age_limit_match(txt)
        wm == waiting_period_match(txt)
        ageFails ==
            /\ query.age # None
            /\ query.age[1] # 0
            /\ am # None
            /\ ~(am[1].min_age <= query.age[1] /\ query.age[1] <= am[1].max_age)
        durationFails ==
            /\ query.policy_duration # None
            /\ wm # None
            /\ query.policy_duration[1] < wm[1]
    IN  IF ageFails
        THEN [ok |-> FALSE,
              response |-> [resp EXCEPT !.justification = JList(
                  Append(@.items,
                         "Age " \o ToString(query.age[1])
                         \o " outside coverage range ("
                         \o ToString(am[1].min_age) \o "-"
                         \o ToString(am[1].max_age) \o ")"))]]
        ELSE IF durationFails
        THEN [ok |-> FALSE,
              response |-> [resp EXCEPT !.justification = JList(
                  Append(@.items,
                         "Policy duration " \o ToString(query.policy_duration[1])
                         \o " months less than minimum " \o ToString(wm[1])))]]
        ELSE [ok |-> TRUE, response |-> resp]

\* The loop body of _check_procedure_coverage over the matches, in order.
RECURSIVE ApplyMatches(_, _, _)
ApplyMatches(procedure, amounts, resp) ==
    IF amounts = <<>> THEN resp
    ELSE LET amount == Head(amounts)
             next ==
                 IF amount > resp.amount
                 THEN [resp EXCEPT
                         !.decision = "approved",
                         !.amount = amount,
                         !.clauses_used =
                             <<"Coverage for " \o procedure \o ": Rs. " \o ToString(amount)>>,
                         !.justification = JList(
                             Append(@.items,
                                    Capitalize(procedure) \o " covered up to Rs. "
                                    \o ToString(amount)))]
                 ELSE resp
         IN  ApplyMatches(procedure, Tail(amounts), next)

\* self.coverage_keywords.get(procedure, [procedure])
PatternKeywords(procedure) ==
    IF procedure \in {"knee", "cardiac", "eye"}
    THEN coverage_keywords(procedure)
    ELSE {procedure}

_check_procedure_coverage(procedure, txt, resp) ==
    ApplyMatches(procedure, coverage_matches(txt, PatternKeywords(procedure), 1), resp)

\* A location step that only annotates the response and vetoes nothing.
location_annotates_only(location, txt, resp) ==
    IF ~network_match(txt, location)
    THEN [resp EXCEPT !.justification = JList(
             Append(@.items, "No network coverage in " \o Capitalize(location)))]
    ELSE resp

_check_location_coverage(location, txt, resp) ==
    IF ~network_match(txt, location)
    THEN LET noted == [resp EXCEPT !.justification = JList(
                          Append(@.items,
                                 "No network coverage in " \o Capitalize(location)))]
         IN  IF resp.decision = "approved"
             THEN [noted EXCEPT !.decision = "rejected", !.amount = 0]
             ELSE noted
    ELSE resp

RECURSIVE Join(_, _)
Join(items, sep) ==
    IF items = <<>> THEN ""
    ELSE IF Len(items) = 1 THEN items[1]
    ELSE items[1] \o sep \o Join(Tail(items), sep)

NoMatchText == "No matching coverage found in policy documents"

\* Iterating a str yields its characters.
Chars(text) ==
    CASE text = NoMatchText ->
            <<"N", "o", " ", "m", "a", "t", "c", "h", "i", "n", "g", " ",
              "c", "o", "v", "e", "r", "a", "g", "e", " ",
              "f", "o", "u", "n", "d", " ", "i", "n", " ",
              "p", "o", "l", "i", "c", "y", " ",
              "d", "o", "c", "u", "m", "e", "n", "t", "s">>
      [] OTHER -> <<text>>

\* Lines 136-139: the fallback text, then ". ".join(response["justification"]).
finalize_response(resp) ==
    LET j == IF resp.justification.items = <<>> /\ resp.justification.text = ""
             THEN JStr(NoMatchText)
             ELSE resp.justification
        parts == IF j.kind = "str" THEN Chars(j.text) ELSE j.items
    IN  [resp EXCEPT !.justification = JStr(Join(parts, ". "))]

(***************************************************************************)
(* VectorStore.  An embedding is a vector of d components of which the     *)
(* first two are followed; a stored (normalised) vector is kept in fifths, *)
(* so that the inner product of two stored vectors is 25 times the cosine. *)
(***************************************************************************)
dimension == 384

Vector(d, x) == [d |-> d, x |-> x]

\* What the embedding model answers for a chunk of policy text.
ChunkEmbedding(text) ==
    CASE text = "knee" -> Vector(dimension, <<6, 8>>)
      [] text = "kneeSurgery" -> Vector(dimension, <<3, 4>>)
      [] text = "joint" -> Vector(dimension, <<4, 3>>)
      [] text = "rupees" -> Vector(dimension, <<8, 6>>)
      [] text = "network" -> Vector(dimension, <<0, 5>>)
      [] text = "age" -> Vector(dimension, <<5, 0>>)
      [] text = "waiting" -> Vector(dimension, <<0, 10>>)

\* What the embedding model answers for a query.
QueryEmbedding(query) ==
    IF InQuery(query, {"knee", "joint"}) THEN Vector(dimension, <<4, 3>>)
    ELSE IF InQuery(query, {"bombay", "chennai"}) THEN Vector(dimension, <<0, 5>>)
    ELSE Vector(dimension, <<5, 0>>)

\* The replies of the Hugging Face endpoint to one request: the embedding, an
\* HTTP error, or a 200 whose embedding has another dimension.
Reply(status_code, embedding) == [status_code |-> status_code, embedding |-> embedding]

ReplyKinds == {"embedding", "http error", "wrong dimension"}

ReplyOf(kind, embedding) ==
    CASE kind = "embedding" -> Reply(200, embedding)
      [] kind = "http error" -> Reply(503, Vector(0, <<0, 0>>))
      [] kind = "wrong dimension" -> Reply(200, Vector(embedding.d + 1, embedding.x))

\* get_embedding: the embedding of a 200 reply; None stands for the raise.
get_embedding(reply) ==
    IF reply.status_code = 200 THEN Some(reply.embedding) ELSE None

\* faiss.normalize_L2 of one row (in fifths).
normalize_L2(v) ==
    LET norm == CHOOSE n \in 1..10 : n * n = v.x[1] * v.x[1] + v.x[2] * v.x[2]
    IN  Vector(v.d, <<(5 * v.x[1]) \div norm, (5 * v.x[2]) \div norm>>)

InnerProduct(u, v) == u.x[1] * v.x[1] + u.x[2] * v.x[2]

Map(f(_), seq) == [i \in 1..Len(seq) |-> f(seq[i])]

\* The state of a store: what __init__ builds, and what the methods change.
Store(ix, docs, meta) == [index |-> ix, documents |-> docs, metadata |-> meta]

EmptyStore == Store(<<>>, <<>>, <<>>)

NoCall == [op |-> "none", n |-> 0, failed |-> 0, ret |-> <<>>]

NoSave == [phase |-> "none", path |-> "", store |-> EmptyStore]

\* The answer of process_query: the status, the decision of the body of a 200
\* and the detail of an HTTPException.
Answer(status_code, decision, detail) ==
    [status_code |-> status_code, decision |-> decision, detail |-> detail]

NoAnswer == Answer(0, "", "")

\* No document is being processed.
\* No request is being served.
LoopIdle ==
    /\ tasks = <<>>
    /\ current = <<>>
    /\ seen = <<>>

ChunkerIdle ==
    /\ raw_text = <<>>
    /\ later = <<>>
    /\ sentences = <<>>
    /\ current_chunk = [sents |-> <<>>, size |-> 0]
    /\ final_chunks = <<>>
    /\ cpc = "idle"

\* The store of a process that has made no VectorStore call yet.
StoreIdle ==
    /\ index = <<>>
    /\ documents = <<>>
    /\ metadata = <<>>
    /\ pickles = [p \in {"vector_store.pkl", "backup.pkl"} |-> None]
    /\ faiss_file = None
    /\ call = NoCall
    /\ saved = NoSave

\* An add_documents that adds each vector to the index as soon as it is
\* embedded, and so keeps the vectors embedded before a failure.
add_documents_per_chunk(store, batch, filename, replies) ==
    LET got == Map(get_embedding, replies)
        bad == {i \in 1..Len(got) : got[i] = None \/ got[i][1].d # dimension}
        done == IF bad = {} THEN Len(got) ELSE Least(bad) - 1
        embeddings == [i \in 1..done |-> normalize_L2(got[i][1])]
    IN  IF bad # {} \/ batch = <<>>
        THEN [store EXCEPT !.index = @ \o embeddings]
        ELSE Store(store.index \o embeddings,
                   store.documents \o batch,
                   store.metadata \o [i \in 1..Len(batch) |-> Metadata(filename, i - 1)])

\* The body of add_documents for a batch and the replies of the embedding
\* endpoint to its chunks: the store it leaves.
add_documents_effect(store, batch, filename, replies) ==
    LET got == Map(get_embedding, replies)
        raised ==
            \* get_embedding raised; np.array/astype refuse rows of unequal
            \* length; normalize_L2 fails on an empty array; index.add asserts
            \* the dimension.
            \/ \E i \in 1..Len(got) : got[i] = None
            \/ \E i, j \in 1..Len(got) : got[i][1].d # got[j][1].d
            \/ batch = <<>>
            \/ \E i \in 1..Len(got) : got[i][1].d # dimension
        embeddings == [i \in 1..Len(got) |-> normalize_L2(got[i][1])]
    IN  IF raised THEN store
        ELSE Store(store.index \o embeddings,
                   store.documents \o batch,
                   store.metadata \o [i \in 1..Len(batch) |-> Metadata(filename, i - 1)])

\* scores, indices = self.index.search(query_embedding, top_k): the top_k best
\* inner products in descending order, equal scores by position; when the
\* index holds fewer than top_k vectors the rest is filled with the label -1
\* and the score -3.4028235e+38 (here -1000).  Labels count from 0.
RECURSIVE faiss_top(_, _, _, _)
faiss_top(ix, q, left, k) ==
    IF k = 0 THEN <<>>
    ELSE IF left = {} THEN <<[score |-> 0 - 1000, idx |-> 0 - 1]>> \o faiss_top(ix, q, left, k - 1)
    ELSE LET best == CHOOSE i \in left : \A j \in left :
                        \/ InnerProduct(ix[i], q) > InnerProduct(ix[j], q)
                        \/ InnerProduct(ix[i], q) = InnerProduct(ix[j], q) /\ i <= j
         IN  <<[score |-> InnerProduct(ix[best], q), idx |-> best - 1]>>
             \o faiss_top(ix, q, left \ {best}, k - 1)

\* The position (from 1) Python's list[idx] reads: a negative idx counts from
\* the end.
PyIndex(list, idx) == IF idx >= 0 THEN idx + 1 ELSE Len(list) + idx + 1

\* The body of search for the reply of the embedding endpoint to the query.
search_result(store, reply, top_k) ==
    IF store.documents = <<>> THEN <<>>
    ELSE IF get_embedding(reply) = None THEN <<>>
    ELSE IF get_embedding(reply)[1].d # dimension THEN <<>>
    ELSE LET q == normalize_L2(get_embedding(reply)[1])
             hits == faiss_top(store.index, q, 1..Len(store.index), top_k)
             kept == SelectSeq(hits, LAMBDA h : h.idx < Len(store.documents))
             InRange(list, idx) == PyIndex(list, idx) \in 1..Len(list)
         IN  IF \E i \in 1..Len(kept) : ~InRange(store.metadata, kept[i].idx)
             THEN <<>>
             ELSE [i \in 1..Len(kept) |->
                      Chunk(store.documents[PyIndex(store.documents, kept[i].idx)],
                            kept[i].score,
                            store.metadata[PyIndex(store.metadata, kept[i].idx)])]

\* A save_index that writes the pickle and never the index file.
save_index_without_index(store, disk, path, io) ==
    IF io = "pickle fails" THEN disk
    ELSE [disk EXCEPT !.pickles[path] =
             Some([documents |-> store.documents, metadata |-> store.metadata])]

\* The files save_index leaves: the pickle at `path`, then the index in
\* "faiss_index.bin"; io tells which write fails, if any.
save_index_effect(store, disk, path, io) ==
    IF io = "pickle fails" THEN disk
    ELSE LET written == [disk EXCEPT !.pickles[path] =
                            Some([documents |-> store.documents,
                                  metadata |-> store.metadata])]
         IN  IF io = "write_index fails" THEN written
             ELSE [written EXCEPT !.faiss_file = Some(store.index)]

\* The store load_index leaves; io tells whether faiss.read_index fails.
load_index_effect(store, disk, path, io) ==
    IF disk.pickles[path] # None /\ disk.faiss_file # None
    THEN LET data == disk.pickles[path][1]
             loaded == [store EXCEPT !.documents = data.documents,
                                     !.metadata = data.metadata]
         IN  IF io = "read_index fails" THEN loaded
             ELSE [loaded EXCEPT !.index = disk.faiss_file[1]]
    ELSE store

\* "<age>-year-old <term> <city> <months>-month": each part may be absent.
QueryText(age, term, city, months) ==
    (IF age = 0 THEN <<>> ELSE <<D(age, 2), W("year-old")>>)
    \o (IF term = "" THEN <<>> ELSE <<W(term)>>)
    \o (IF city = "" THEN <<>> ELSE <<W(city)>>)
    \o (IF months = 0 THEN <<>> ELSE <<D(months, 2), W("month")>>)

(***************************************************************************)
(* The calls on a VectorStore that are explored.                           *)
(***************************************************************************)
MaxEntries == 2

\* search is called with top_k = 5 (its default, and what process_query
\* passes); 1 stands for a top_k below the number of entries.
TopKs == {1, 5}

Paths == {"vector_store.pkl", "backup.pkl"}

\* The uploaded files and the chunks process_document returns for each; it
\* returns [] for a file it cannot read.
Filenames == {"policy.txt", "terms.txt", "scan.pdf"}

FileChunks(filename) ==
    CASE filename = "policy.txt" -> <<"knee", "network">>
      [] filename = "terms.txt" -> <<"age">>
      [] filename = "scan.pdf" -> <<>>
StoreQueries == {QueryText(45, "knee surgery", "", 0), QueryText(0, "", "bombay", 0)}

TheStore == Store(index, documents, metadata)
TheDisk == [pickles |-> pickles, faiss_file |-> faiss_file]

SetStore(store) ==
    /\ index' = store.index
    /\ documents' = store.documents
    /\ metadata' = store.metadata

\* A call: its name, the size it was given (the batch size of add_documents,
\* the top_k of search), the position of the first failure of a collaborator
\* (0: none) and the value returned.
Called(op, n, failed, ret) == [op |-> op, n |-> n, failed |-> failed, ret |-> ret]

InitStore ==
    /\ StoreIdle
    /\ http = NoAnswer
    /\ ChunkerIdle
    /\ rawq = None
    /\ sq = StructuredQuery(None, None, None, None, None)
    /\ chunks = <<>>
    /\ response = InitialResponse
    /\ pc = "idle"
    /\ LoopIdle

\* The position of the first reply that is no embedding of the configured
\* dimension, or 0 when every reply is one.
FirstFailure(replies) ==
    LET bad == {i \in 1..Len(replies) :
                   \/ get_embedding(replies[i]) = None
                   \/ get_embedding(replies[i])[1].d # dimension}
    IN  IF bad = {} THEN 0 ELSE Least(bad)

\* vector_store.add_documents(chunks, file.filename), as upload_documents calls
\* it with the chunks process_document returned for an uploaded file.
add_documents ==
    \E filename \in Filenames :
        LET batch == FileChunks(filename)
        IN
        /\ \E kinds \in [1..Len(batch) -> ReplyKinds] :
              LET replies == [i \in 1..Len(batch) |->
                                 ReplyOf(kinds[i], ChunkEmbedding(batch[i]))]
              IN
              /\ SetStore(add_documents_effect(TheStore, batch, filename, replies))
              /\ Len(index') <= MaxEntries
              /\ Len(documents') <= MaxEntries
              /\ call' = Called("add_documents", Len(batch), FirstFailure(replies), None)
        /\ saved' = NoSave
        /\ UNCHANGED <<pickles, faiss_file, dvars, http, cvars, lvars>>

search ==
    \E query \in StoreQueries, top_k \in TopKs :
        \E kind \in ReplyKinds :
            LET reply == ReplyOf(kind, QueryEmbedding(query))
            IN
            /\ call' = Called("search", top_k, FirstFailure(<<reply>>),
                              search_result(TheStore, reply, top_k))
            /\ saved' = NoSave
            /\ UNCHANGED <<index, documents, metadata, pickles, faiss_file, dvars, http, cvars, lvars>>

save_index ==
    \E path \in Paths, io \in {"ok", "pickle fails", "write_index fails"} :
        /\ LET disk == save_index_effect(TheStore, TheDisk, path, io)
           IN  /\ pickles' = disk.pickles
               /\ faiss_file' = disk.faiss_file
        /\ call' = Called("save_index", 0, IF io = "ok" THEN 0 ELSE 1, None)
        /\ saved' = IF io = "ok"
                    THEN [phase |-> "saved", path |-> path, store |-> TheStore]
                    ELSE NoSave
        /\ UNCHANGED <<index, documents, metadata, dvars, http, cvars, lvars>>

load_index ==
    \E path \in Paths, io \in {"ok", "read_index fails"} :
        /\ SetStore(load_index_effect(TheStore, TheDisk, path, io))
        /\ call' = Called("load_index", 0, IF io = "ok" THEN 0 ELSE 1, None)
        /\ saved' = IF saved.phase = "fresh" /\ saved.path = path /\ io = "ok"
                    THEN [saved EXCEPT !.phase = "restored"]
                    ELSE NoSave
        /\ UNCHANGED <<pickles, faiss_file, dvars, http, cvars, lvars>>

\* A fresh VectorStore(): the process starts again; the files stay.
VectorStore__init__ ==
    /\ SetStore(EmptyStore)
    /\ call' = Called("__init__", 0, 0, None)
    /\ saved' = IF saved.phase = "saved" THEN [saved EXCEPT !.phase = "fresh"] ELSE NoSave
    /\ UNCHANGED <<pickles, faiss_file, dvars, http, cvars, lvars>>

NextStore ==
    \/ add_documents
    \/ search
    \/ save_index
    \/ load_index
    \/ VectorStore__init__

SpecStore == InitStore /\ [][NextStore]_vars

(***************************************************************************)
(* The calls of make_decision that are explored.                           *)
(***************************************************************************)
MaxChunks == 2

RawQueries ==
    {QueryText(a, t, c, m) :
        a \in {0, 15, 45},
        t \in {"", "knee surgery", "joint pain", "heart bypass"},
        c \in {"", "bombay", "chennai"},
        m \in {0, 12, 36}}

\* StructuredQuery objects built by a caller without parse_query.
DirectQueries ==
    {StructuredQuery(a, None, p, l, d) :
        a \in {None, Some(15), Some(45)},
        p \in {None, Some("knee"), Some("knee surgery")},
        l \in {None, Some("mumbai"), Some("chennai")},
        d \in {None, Some(12)}}

ChunkLists ==
    SeqsUpTo({Chunk(c, 0, Metadata("policy.txt", 0)) : c \in ClauseNames}, MaxChunks)

\* make_decision has been called: lines 113-121 have run.
InitDecision ==
    /\ rawq \in {None} \cup {Some(q) : q \in RawQueries}
    /\ sq \in IF rawq = None THEN DirectQueries ELSE {parse_query(rawq[1])}
    /\ chunks \in ChunkLists
    /\ response = InitialResponse
    /\ pc = "eligibility"
    /\ StoreIdle
    /\ http = NoAnswer
    /\ ChunkerIdle
    /\ LoopIdle

\* Lines 123-125.
check_basic_eligibility ==
    /\ pc = "eligibility"
    /\ LET r == _check_basic_eligibility(sq, policy_text(chunks), response)
       IN  /\ response' = r.response
           /\ pc' = IF r.ok THEN "procedure" ELSE "done"
    /\ UNCHANGED <<rawq, sq, chunks, svars, http, cvars, lvars>>

\* Lines 127-129.
check_procedure_coverage ==
    /\ pc = "procedure"
    /\ response' = IF sq.procedure # None
                   THEN _check_procedure_coverage(sq.procedure[1], policy_text(chunks),
                                                  response)
                   ELSE response
    /\ pc' = "location"
    /\ UNCHANGED <<rawq, sq, chunks, svars, http, cvars, lvars>>

\* Lines 131-133.
check_location_coverage ==
    /\ pc = "location"
    /\ response' = IF sq.location # None
                   THEN _check_location_coverage(sq.location[1], policy_text(chunks),
                                                 response)
                   ELSE response
    /\ pc' = "finalize"
    /\ UNCHANGED <<rawq, sq, chunks, svars, http, cvars, lvars>>

\* Lines 135-140.
finalize ==
    /\ pc = "finalize"
    /\ response' = finalize_response(response)
    /\ pc' = "done"
    /\ UNCHANGED <<rawq, sq, chunks, svars, http, cvars, lvars>>

NextDecision ==
    \/ check_basic_eligibility
    \/ check_procedure_coverage
    \/ check_location_coverage
    \/ finalize

SpecDecision == InitDecision /\ [][NextDecision]_vars

(***************************************************************************)
(* DocumentProcessor.  The extracted text is a sequence of pieces, each    *)
(* followed by one whitespace character: a piece has a length, ends a      *)
(* sentence or not (stop: it ends in "." or "?" where the sentence pattern *)
(* splits), and may be a header line "\nSECTION X) ..." (hdr).  A piece is *)
(* named by its position in the text.                                      *)
(***************************************************************************)
chunk_size == 1000
min_section_length == 50

Piece(len, stop, hdr) == [len |-> len, stop |-> stop, hdr |-> hdr]

\* _clean_text: re.sub(r'\s+', ' ', text) turns every newline into a space,
\* the newline in front of a header line included, so that no header pattern
\* matches afterwards; the second re.sub then finds nothing to standardise.
_clean_text(txt) == [i \in 1..Len(txt) |-> [txt[i] EXCEPT !.hdr = FALSE]]

RECURSIVE SumLen(_, _)
SumLen(txt, ids) ==
    IF ids = <<>> THEN 0 ELSE txt[Head(ids)].len + SumLen(txt, Tail(ids))

\* Lines 55-70: re.split at the header lines; every header opens a section
\* that holds the header and the text up to the next header, and the text in
\* front of the first header is a section of its own.  A section is the list
\* of the positions of its pieces.
structured_sections(txt) ==
    LET n == Len(txt)
        heads == {i \in 1..n : txt[i].hdr}
        starts == {1} \cup heads
        EndOf(b) == IF \E h \in heads : h > b
                    THEN Least({h \in heads : h > b}) - 1
                    ELSE n
        ordered == [k \in 1..Cardinality(starts) |->
                       CHOOSE b \in starts : Cardinality({c \in starts : c < b}) = k - 1]
    IN  [k \in 1..Len(ordered) |-> [j \in 1..(EndOf(ordered[k]) - ordered[k] + 1) |->
                                        ordered[k] + j - 1]]

\* len(section): the pieces, a whitespace after each but the last, the " "
\* the loop appends, and the " " it puts between a header and its text.
SectionLen(txt, sec) ==
    SumLen(txt, sec) + Max(Len(sec) - 1, 0) + 1
    + (IF sec # <<>> /\ txt[sec[1]].hdr THEN 1 ELSE 0)

\* Line 79: the header of the section (its position), 0 for "Policy Content".
HeaderOf(txt, sec) == IF sec # <<>> /\ txt[sec[1]].hdr THEN sec[1] ELSE 0

Sentence(ids, len, raw) == [ids |-> ids, len |-> len, raw |-> raw]

\* Line 82: re.split at the whitespace that follows a sentence end.  The
\* pieces up to a stop make one sentence; what follows the last stop is a
\* last sentence that keeps the trailing whitespace ("" when nothing follows).
RECURSIVE split_sentences(_, _, _)
split_sentences(txt, sec, acc) ==
    LET gap == IF acc # <<>> /\ txt[acc[1]].hdr THEN 1 ELSE 0
        size == SumLen(txt, acc) + Max(Len(acc) - 1, 0) + gap
    IN  IF sec = <<>>
        THEN <<Sentence(acc, size, IF acc = <<>> THEN 0 ELSE size + 1)>>
        ELSE IF txt[Head(sec)].stop
        THEN LET ids == Append(acc, Head(sec))
                 full == SumLen(txt, ids) + Len(ids) - 1 + gap
             IN  <<Sentence(ids, full, full)>> \o split_sentences(txt, Tail(sec), <<>>)
        ELSE split_sentences(txt, Tail(sec), Append(acc, Head(sec)))

\* The running buffer: the sentences in it and len(current_chunk).
Buffer(sents, size) == [sents |-> sents, size |-> size]

EmptyBuffer == Buffer(<<>>, 0)

\* current_chunk + sentence + " "
Extend(buffer, sentence) ==
    Buffer(IF sentence.ids = <<>> THEN buffer.sents ELSE Append(buffer.sents, sentence),
           buffer.size + sentence.raw + 1)

RECURSIVE SumSentences(_)
SumSentences(sents) ==
    IF sents = <<>> THEN 0 ELSE Head(sents).len + SumSentences(Tail(sents))

\* f"{header}\n{current_chunk.strip()}": the header, the sentences and the
\* length of the stripped text.
Emitted(header, buffer) ==
    [header |-> header, sents |-> buffer.sents,
     len |-> SumSentences(buffer.sents) + Max(Len(buffer.sents) - 1, 0)]

\* A loop body that starts an empty buffer after a flush, and so loses the
\* sentence that triggered it.
pack_drops_trigger(buffer, sentence, header, emitted) ==
    IF buffer.size + sentence.raw < chunk_size
    THEN [buffer |-> Extend(buffer, sentence), emitted |-> emitted]
    ELSE [buffer |-> EmptyBuffer,
          emitted |-> IF buffer.sents # <<>>
                      THEN Append(emitted, Emitted(header, buffer))
                      ELSE emitted]

\* Lines 86-91: the loop body for one sentence.
pack(buffer, sentence, header, emitted) ==
    IF buffer.size + sentence.raw < chunk_size
    THEN [buffer |-> Extend(buffer, sentence), emitted |-> emitted]
    ELSE [buffer |-> Extend(EmptyBuffer, sentence),
          emitted |-> IF buffer.sents # <<>>
                      THEN Append(emitted, Emitted(header, buffer))
                      ELSE emitted]

(***************************************************************************)
(* The documents that are processed.                                       *)
(***************************************************************************)
MaxPieces == 3

PieceKinds ==
    {Piece(len, stop, FALSE) : len \in {10, 600, 1200}, stop \in BOOLEAN}
    \cup {Piece(len, FALSE, TRUE) : len \in {10, 600}}

InitChunker ==
    /\ raw_text \in SeqsUpTo(PieceKinds, MaxPieces)
    /\ later = <<>>
    /\ sentences = <<>>
    /\ current_chunk = EmptyBuffer
    /\ final_chunks = <<>>
    /\ cpc = "start"
    /\ StoreIdle
    /\ http = NoAnswer
    /\ rawq = None
    /\ sq = StructuredQuery(None, None, None, None, None)
    /\ chunks = <<>>
    /\ response = InitialResponse
    /\ pc = "idle"
    /\ LoopIdle

\* process_document lines 29-32 and _split_into_sections lines 55-73.
clean_and_split ==
    /\ cpc = "start"
    /\ later' = structured_sections(_clean_text(raw_text))
    /\ cpc' = "section"
    /\ UNCHANGED <<raw_text, sentences, current_chunk, final_chunks, dvars, svars, http, lvars>>

\* Lines 74-84: the section at the head of the list; one shorter than
\* min_section_length is skipped.  Line 96 when no section is left.
next_section ==
    /\ cpc = "section"
    /\ IF later = <<>>
       THEN /\ cpc' = "done"
            /\ UNCHANGED <<later, sentences, current_chunk>>
       ELSE IF SectionLen(_clean_text(raw_text), Head(later)) < min_section_length
       THEN /\ later' = Tail(later)
            /\ cpc' = "section"
            /\ UNCHANGED <<sentences, current_chunk>>
       ELSE /\ sentences' = split_sentences(_clean_text(raw_text), Head(later), <<>>)
            /\ current_chunk' = EmptyBuffer
            /\ cpc' = "pack"
            /\ UNCHANGED later
    /\ UNCHANGED <<raw_text, final_chunks, dvars, svars, http, lvars>>

\* Lines 85-91.
pack_sentence ==
    /\ cpc = "pack"
    /\ sentences # <<>>
    /\ LET r == pack(current_chunk, Head(sentences),
                     HeaderOf(_clean_text(raw_text), Head(later)), final_chunks)
       IN  /\ current_chunk' = r.buffer
           /\ final_chunks' = r.emitted
    /\ sentences' = Tail(sentences)
    /\ UNCHANGED <<raw_text, later, cpc, dvars, svars, http, lvars>>

\* Lines 93-94, and on to the next section.
flush_last ==
    /\ cpc = "pack"
    /\ sentences = <<>>
    /\ final_chunks' = IF current_chunk.sents # <<>>
                       THEN Append(final_chunks,
                                   Emitted(HeaderOf(_clean_text(raw_text), Head(later)),
                                           current_chunk))
                       ELSE final_chunks
    /\ current_chunk' = EmptyBuffer
    /\ later' = Tail(later)
    /\ cpc' = "section"
    /\ UNCHANGED <<raw_text, sentences, dvars, svars, http, lvars>>

NextChunker ==
    \/ clean_and_split
    \/ next_section
    \/ pack_sentence
    \/ flush_last

SpecChunker == InitChunker /\ [][NextChunker]_vars

(***************************************************************************)
(* main.py: upload_documents and process_query on the module-level         *)
(* vector_store and query_handler.                                         *)
(***************************************************************************)
\* One file of an upload request: lines 35-38.  The requests are served one
\* at a time here, the uploads first.
upload_file ==
    /\ pc = "idle"
    /\ add_documents

\* A request arrives at /process-query.
receive_query ==
    /\ pc \in {"idle", "sent"}
    /\ \E q \in RawQueries : rawq' = Some(q)
    /\ sq' = StructuredQuery(None, None, None, None, None)
    /\ chunks' = <<>>
    /\ response' = InitialResponse
    /\ pc' = "parse"
    /\ http' = NoAnswer
    /\ UNCHANGED <<svars, cvars, lvars>>

\* Line 51.
process_query_parse ==
    /\ pc = "parse"
    /\ sq' = parse_query(rawq[1])
    /\ pc' = "search"
    /\ UNCHANGED <<rawq, chunks, response, svars, http, cvars, lvars>>

\* Line 54, and lines 113-121 of make_decision.
process_query_search ==
    /\ pc = "search"
    /\ \E kind \in ReplyKinds :
          LET reply == ReplyOf(kind, QueryEmbedding(rawq[1]))
              found == search_result(TheStore, reply, 5)
          IN  /\ chunks' = found
              /\ call' = Called("search", 5, FirstFailure(<<reply>>), found)
    /\ response' = InitialResponse
    /\ saved' = NoSave
    /\ pc' = "eligibility"
    /\ UNCHANGED <<rawq, sq, index, documents, metadata, pickles, faiss_file, http, cvars, lvars>>

\* Lines 59-62: QueryResponse(**decision) validates the fields (justification
\* must be a str); a failure is answered as an HTTPException of status 500.
process_query_respond ==
    /\ pc = "done"
    /\ http' = IF response.justification.kind = "str"
               THEN Answer(200, response.decision, "")
               ELSE Answer(500, "", "Error processing query: validation error")
    /\ pc' = "sent"
    /\ UNCHANGED <<rawq, sq, chunks, response, svars, cvars, lvars>>

NextService ==
    \/ upload_file
    \/ receive_query
    \/ process_query_parse
    \/ process_query_search
    \/ check_basic_eligibility
    \/ check_procedure_coverage
    \/ check_location_coverage
    \/ finalize
    \/ process_query_respond

SpecService == InitStore /\ [][NextService]_vars

(***************************************************************************)
(* The request handlers as coroutines of the one event loop uvicorn.run    *)
(* starts.  upload_documents and process_query are `async def`: a handler  *)
(* runs on the loop until it reaches an await or returns, and only then    *)
(* does the loop run another handler.  The handlers work on the one        *)
(* module-level vector_store; its methods are followed statement by        *)
(* statement.                                                              *)
(***************************************************************************)
MaxFiles == 1

Handlers == {"upload A", "upload B", "query"}

Uploads == {"upload A", "upload B"}

\* A coroutine: the statement it executes next, the files an upload has
\* still to process, and its locals (the embeddings of add_documents, the
\* index contents search has read).
Task(stmt, files, embeddings, view) ==
    [pc |-> stmt, files |-> files, embeddings |-> embeddings, view |-> view]

UploadRequests == SeqsUpTo(Filenames, MaxFiles) \ {<<>>}

\* A handler that gives up the event loop at any statement, as a thread
\* does.
SuspendsAnywhere(stmt) == TRUE

\* The statements at which a handler gives up the event loop: the one await
\* of the two handlers, `content = await file.read()`.
Suspends(stmt) == stmt = "read"

\* Two uploads and a query have arrived.
InitLoop ==
    /\ tasks \in {[h \in Handlers |->
                      IF h = "query" THEN Task("parse", <<>>, <<>>, <<>>)
                      ELSE Task("read", IF h = "upload A" THEN a ELSE b, <<>>, <<>>)] :
                  a \in UploadRequests, b \in UploadRequests}
    /\ current = None
    /\ seen = None
    /\ StoreIdle
    /\ http = NoAnswer
    /\ ChunkerIdle
    /\ rawq = None
    /\ sq = StructuredQuery(None, None, None, None, None)
    /\ chunks = <<>>
    /\ response = InitialResponse
    /\ pc = "idle"

\* The handler h has executed the statement stmt and goes on at `next`.
Proceed(h, stmt, next, files, embeddings, view) ==
    /\ tasks' = [tasks EXCEPT ![h] = Task(next, files, embeddings, view)]
    /\ current' = IF Suspends(stmt) \/ next = "done" THEN None ELSE current

Running(h, stmt) == current = Some(h) /\ tasks[h].pc = stmt

\* The files still to process after the one at the head.
NextFile(h) == IF Tail(tasks[h].files) = <<>> THEN "done" ELSE "read"

\* The event loop resumes a handler that has not returned.
resume ==
    /\ current = None
    /\ \E h \in Handlers :
          /\ tasks[h].pc # "done"
          /\ current' = Some(h)
    /\ UNCHANGED <<tasks, seen, dvars, svars, http, cvars>>

\* main.py lines 29-32: the temporary file is written from `await file.read()`.
upload_read ==
    \E h \in Uploads :
        /\ Running(h, "read")
        /\ Proceed(h, "read", "embed", tasks[h].files, <<>>, <<>>)
        /\ UNCHANGED <<seen, dvars, svars, http, cvars>>

\* main.py line 35 and vector_store.py lines 40-42: the chunks of the file
\* are embedded and normalised; a failure is caught at lines 50-51, and the
\* handler goes on with the next file.
upload_embed ==
    \E h \in Uploads :
        /\ Running(h, "embed")
        /\ LET batch == FileChunks(Head(tasks[h].files))
           IN  \E kinds \in [1..Len(batch) -> ReplyKinds] :
                  LET replies == [i \in 1..Len(batch) |->
                                     ReplyOf(kinds[i], ChunkEmbedding(batch[i]))]
                  IN  IF FirstFailure(replies) # 0 \/ batch = <<>>
                      THEN Proceed(h, "embed", NextFile(h), Tail(tasks[h].files),
                                   <<>>, <<>>)
                      ELSE Proceed(h, "embed", "index.add", tasks[h].files,
                                   [i \in 1..Len(batch) |->
                                       normalize_L2(get_embedding(replies[i])[1])],
                                   <<>>)
        /\ UNCHANGED <<seen, dvars, svars, http, cvars>>

\* vector_store.py line 43.
upload_index_add ==
    \E h \in Uploads :
        /\ Running(h, "index.add")
        /\ index' = index \o tasks[h].embeddings
        /\ Proceed(h, "index.add", "documents.extend", tasks[h].files,
                   tasks[h].embeddings, <<>>)
        /\ UNCHANGED <<documents, metadata, pickles, faiss_file, call, saved,
                       seen, dvars, http, cvars>>

\* vector_store.py line 45.
upload_documents_extend ==
    \E h \in Uploads :
        /\ Running(h, "documents.extend")
        /\ documents' = documents \o FileChunks(Head(tasks[h].files))
        /\ Proceed(h, "documents.extend", "metadata.extend", tasks[h].files,
                   tasks[h].embeddings, <<>>)
        /\ UNCHANGED <<index, metadata, pickles, faiss_file, call, saved,
                       seen, dvars, http, cvars>>

\* vector_store.py line 46, and on to the next file (main.py lines 39-41).
upload_metadata_extend ==
    \E h \in Uploads :
        /\ Running(h, "metadata.extend")
        /\ metadata' = metadata \o
               [i \in 1..Len(FileChunks(Head(tasks[h].files))) |->
                   Metadata(Head(tasks[h].files), i - 1)]
        /\ Proceed(h, "metadata.extend", NextFile(h), Tail(tasks[h].files), <<>>, <<>>)
        /\ UNCHANGED <<index, documents, pickles, faiss_file, call, saved,
                       seen, dvars, http, cvars>>

\* main.py line 51 and vector_store.py lines 56-61: the query is parsed;
\* search returns [] at once on an empty documents list, and when the query
\* cannot be embedded.
query_embed ==
    /\ Running("query", "parse")
    /\ \E kind \in ReplyKinds :
          IF documents = <<>> \/ kind # "embedding"
          THEN Proceed("query", "parse", "done", <<>>, <<>>, <<>>)
          ELSE Proceed("query", "parse", "index.search", <<>>, <<>>, <<>>)
    /\ UNCHANGED <<seen, dvars, svars, http, cvars>>

\* vector_store.py line 63: the index is searched.
query_index_search ==
    /\ Running("query", "index.search")
    /\ Proceed("query", "index.search", "collect", <<>>, <<>>, Some(index))
    /\ UNCHANGED <<seen, dvars, svars, http, cvars>>

\* vector_store.py lines 65-74: the results are collected from documents and
\* metadata; main.py lines 57-59 then work on the results alone.
query_collect ==
    /\ Running("query", "collect")
    /\ seen' = Some(Store(tasks["query"].view[1], documents, metadata))
    /\ Proceed("query", "collect", "done", <<>>, <<>>, <<>>)
    /\ UNCHANGED <<dvars, svars, http, cvars>>

NextLoop ==
    \/ resume
    \/ upload_read
    \/ upload_embed
    \/ upload_index_add
    \/ upload_documents_extend
    \/ upload_metadata_extend
    \/ query_embed
    \/ query_index_search
    \/ query_collect

SpecLoop == InitLoop /\ [][NextLoop]_vars

\* C9: when the embedding endpoint fails or answers a malformed embedding
\* while a query is searched on a non-empty store, the caller is given an
\* error carrying a diagnostic message, never an approved and never an
\* ordinary rejected decision.
C9_EmbeddingFailureIsError ==
    (/\ pc = "sent"
     /\ call.op = "search"
     /\ call.failed # 0
     /\ documents # <<>>)
    => \/ http.status_code = 500 /\ http.detail # ""
       \/ http.status_code = 200 /\ http.decision = "error"

(***************************************************************************)
(* Claims about make_decision, checked under SpecDecision.                 *)
(***************************************************************************)
RECURSIVE MaxOf(_)
MaxOf(amounts) ==
    IF Len(amounts) = 1 THEN amounts[1]
    ELSE Max(amounts[1], MaxOf(Tail(amounts)))

\* The category of a procedure value parse_query returns.
CategoryOf(procedure) ==
    CASE procedure \in {"knee surgery", "knee"} -> "knee"
      [] procedure \in {"cardiac surgery", "cardiac"} -> "cardiac"
      [] procedure \in {"eye surgery", "eye"} -> "eye"

ParseProcedures ==
    {"knee surgery", "cardiac surgery", "eye surgery", "knee", "cardiac", "eye"}

\* The figures of the coverage-amount clauses of a category in the text: a
\* keyword or synonym of the category, a coverage word, an amount.
CategoryAmounts(txt, category) == coverage_matches(txt, coverage_keywords(category), 1)

NoGateFires ==
    /\ _check_basic_eligibility(sq, policy_text(chunks), InitialResponse).ok
    /\ sq.location # None => network_match(policy_text(chunks), sq.location[1])

\* C1: for a procedure parse_query can return and a retrieved text with a
\* coverage-amount clause of the procedure's category, no gate firing, the
\* decision is approved, the amount is the maximum matched figure and
\* clauses_used names that amount.
C1_ApprovedAtMaximum ==
    (/\ pc = "done"
     /\ sq.procedure # None
     /\ sq.procedure[1] \in ParseProcedures
     /\ CategoryAmounts(policy_text(chunks), CategoryOf(sq.procedure[1])) # <<>>
     /\ NoGateFires)
    => LET top == MaxOf(CategoryAmounts(policy_text(chunks), CategoryOf(sq.procedure[1])))
       IN  /\ response.decision = "approved"
           /\ response.amount = top
           /\ response.clauses_used =
                  <<"Coverage for " \o sq.procedure[1] \o ": Rs. " \o ToString(top)>>

\* The query states the age: in its text, or in the StructuredQuery itself.
QueryStatesAge(age) ==
    \/ sq.age = Some(age)
    \/ /\ rawq # None
       /\ \E i \in 1..(Len(rawq[1]) - 1) :
              rawq[1][i].t = "d" /\ rawq[1][i].n = age /\ rawq[1][i + 1] = W("year-old")

\* C2: a query with age 15 is rejected whatever the retrieved chunks are.
C2_Age15Rejected ==
    (pc = "done" /\ QueryStatesAge(15)) => response.decision = "rejected"

LocationOutOfNetwork ==
    sq.location # None /\ ~network_match(policy_text(chunks), sq.location[1])

\* C3: location is a veto.  A query whose location no network clause of the
\* retrieved text names is returned rejected with amount 0, also when the
\* procedure step had approved; and the location step never turns a rejected
\* decision into an approved one.
C3_LocationVeto ==
    /\ []((pc = "done" /\ LocationOutOfNetwork)
          => (response.decision = "rejected" /\ response.amount = 0))
    /\ [][(pc = "location" /\ response.decision = "rejected")
          => response'.decision = "rejected"]_vars

\* The procedure step approved (its clause is still cited) and the location
\* step then vetoed.
C3_Witness ==
    /\ pc = "done"
    /\ LocationOutOfNetwork
    /\ response.clauses_used # <<>>
    /\ response.decision = "rejected"
    /\ response.amount = 0

\* C4: with an empty chunk list the decision is rejected, amount 0.0, no
\* clauses, and the justification "no relevant policy information found".
C4_NoEvidence ==
    (pc = "done" /\ chunks = <<>>)
    => /\ response.decision = "rejected"
       /\ response.amount = 0
       /\ response.clauses_used = <<>>
       /\ response.justification = JStr("no relevant policy information found")

(***************************************************************************)
(* Claims about the VectorStore, checked under SpecStore.                  *)
(***************************************************************************)
\* The results are distinct stored entries: they can be assigned to distinct
\* positions of the store that hold their text and metadata.
DistinctEntries(results) ==
    \E f \in [1..Len(results) -> 1..Len(documents)] :
        /\ \A i, j \in 1..Len(results) : i # j => f[i] # f[j]
        /\ \A i \in 1..Len(results) :
              /\ documents[f[i]] = results[i].text
              /\ f[i] <= Len(metadata)
              /\ metadata[f[i]] = results[i].metadata

\* C5: search on a store of N entries returns at most min(top_k, N) results,
\* each a distinct stored entry, in strictly descending score order.
C5_SearchBounded ==
    call.op = "search"
    => /\ Len(call.ret) <= Min(call.n, Len(documents))
       /\ DistinctEntries(call.ret)
       /\ \A i \in 1..(Len(call.ret) - 1) : call.ret[i].score > call.ret[i + 1].score

\* C6: add_documents is atomic per batch.  When a chunk of the batch cannot
\* be embedded (an error of the endpoint, a vector of another dimension) or
\* the batch is empty, index, documents and metadata are left as they were;
\* otherwise each grows by exactly the batch size.
C6_AddAtomic ==
    [][call'.op = "add_documents"
       => IF call'.failed = 0 /\ call'.n > 0
          THEN /\ Len(index') = Len(index) + call'.n
               /\ Len(documents') = Len(documents) + call'.n
               /\ Len(metadata') = Len(metadata) + call'.n
          ELSE /\ index' = index
               /\ documents' = documents
               /\ metadata' = metadata]_vars

\* A batch of two whose second chunk failed to embed, on a store that
\* already held one entry.
C6_Witness ==
    /\ call.op = "add_documents"
    /\ call.n = 2
    /\ call.failed = 2
    /\ Len(index) = 1
    /\ Len(documents) = 1

\* C7: the number of vectors in the index equals len(documents) equals
\* len(metadata) in every reachable state of a store.
C7_CountsAgree ==
    /\ Len(index) = Len(documents)
    /\ Len(documents) = Len(metadata)

\* C8: save_index(path), then load_index(path) into a fresh VectorStore,
\* yields the documents, metadata and vectors that were saved, in the same
\* order, and so the same search results for every query and top_k.
C8_RoundTrip ==
    saved.phase = "restored"
    => /\ TheStore = saved.store
       /\ \A query \in StoreQueries, top_k \in TopKs :
              search_result(TheStore, ReplyOf("embedding", QueryEmbedding(query)), top_k)
              = search_result(saved.store, ReplyOf("embedding", QueryEmbedding(query)), top_k)

\* A store of two different chunks has been saved and loaded back.
C8_Witness ==
    /\ saved.phase = "restored"
    /\ Len(documents) = 2
    /\ documents[1] # documents[2]
    /\ Len(index) = 2

(***************************************************************************)
(* Claims about the chunker, checked under SpecChunker.                    *)
(***************************************************************************)
RECURSIVE Flatten(_)
Flatten(seqs) == IF seqs = <<>> THEN <<>> ELSE Head(seqs) \o Flatten(Tail(seqs))

\* The sentences of a section, in order, as lists of piece positions.
SentencesOf(txt, sec) ==
    LET all == split_sentences(txt, sec, <<>>)
        kept == SelectSeq(all, LAMBDA s : s.ids # <<>>)
    IN  [i \in 1..Len(kept) |-> kept[i].ids]

\* The sentences of the whole input.
InputSentences ==
    LET txt == _clean_text(raw_text)
        secs == structured_sections(txt)
    IN  Flatten([k \in 1..Len(secs) |-> SentencesOf(txt, secs[k])])

\* The sentences of the sections that are at least min_section_length long.
LongSectionSentences ==
    LET txt == _clean_text(raw_text)
        secs == SelectSeq(structured_sections(txt),
                          LAMBDA sec : SectionLen(txt, sec) >= min_section_length)
    IN  Flatten([k \in 1..Len(secs) |-> SentencesOf(txt, secs[k])])

\* The sentences of the emitted chunks, in order.
ChunkSentences ==
    Flatten([k \in 1..Len(final_chunks) |->
                [i \in 1..Len(final_chunks[k].sents) |-> final_chunks[k].sents[i].ids]])

LongestSentence ==
    LET all == {0} \cup
               {SumLen(_clean_text(raw_text), ids) + Len(ids) - 1 :
                    ids \in {InputSentences[i] : i \in 1..Len(InputSentences)}}
    IN  CHOOSE m \in all : \A x \in all : x <= m

ChunksWellFormed ==
    \A k \in 1..Len(final_chunks) :
        /\ final_chunks[k].sents # <<>>
        /\ final_chunks[k].len > 0
        /\ final_chunks[k].len <= chunk_size + LongestSentence

\* C10 as stated: when the chunker returns, every chunk is non-empty and at
\* most chunk_size plus one sentence long, and the sentences of the chunks in
\* order are exactly the sentences of the input.
C10_NoSentenceLost ==
    cpc = "done" => /\ ChunksWellFormed
                    /\ ChunkSentences = InputSentences

\* C10 amended: when the chunker returns, every chunk is non-empty and at
\* most chunk_size plus one sentence long, and the sentences of the chunks in
\* order are exactly the sentences of the sections that are at least
\* min_section_length long; a shorter section is dropped whole.
C10_LongSectionsKept ==
    cpc = "done" => /\ ChunksWellFormed
                    /\ ChunkSentences = LongSectionSentences

\* C10: a text whose second sentence triggered a flush has been chunked.
C10_Witness ==
    /\ cpc = "done"
    /\ Len(final_chunks) >= 2
    /\ Len(ChunkSentences) >= 2
    /\ ChunkSentences = LongSectionSentences

(***************************************************************************)
(* The justification make_decision returns, checked under SpecDecision.    *)
(***************************************************************************)
\* The justification entries the steps of make_decision append for the query
\* and the retrieved chunks, in the order they are appended.
AccumulatedEntries ==
    LET txt == policy_text(chunks)
        gate == _check_basic_eligibility(sq, txt, InitialResponse)
        covered == IF sq.procedure # None
                   THEN _check_procedure_coverage(sq.procedure[1], txt, gate.response)
                   ELSE gate.response
        located == IF sq.location # None
                   THEN _check_location_coverage(sq.location[1], txt, covered)
                   ELSE covered
    IN  IF gate.ok THEN located.justification.items
        ELSE gate.response.justification.items

\* C11: on every path through make_decision the justification returned is
\* one string, the accumulated entries joined in the order they were
\* appended (the no-match message, or the empty string, when no entry was
\* accumulated), so that QueryResponse accepts the decision.
C11_JustificationJoined ==
    pc = "done"
    => /\ response.justification.kind = "str"
       /\ IF AccumulatedEntries = <<>>
          THEN response.justification.text \in {"", NoMatchText}
          ELSE response.justification.text = Join(AccumulatedEntries, ". ")

(***************************************************************************)
(* The shared VectorStore under concurrent requests, checked under         *)
(* SpecLoop.                                                               *)
(***************************************************************************)
\* The store is made of whole batches: its vectors, documents and metadata
\* are those of a sequence of files, each added entirely.
RECURSIVE WholeBatches(_)
WholeBatches(store) ==
    \/ store = EmptyStore
    \/ \E f \in Filenames :
          LET batch == FileChunks(f)
              n == Len(batch)
          IN  /\ n > 0
              /\ n <= Len(store.index)
              /\ n <= Len(store.documents)
              /\ n <= Len(store.metadata)
              /\ \A i \in 1..n :
                    /\ store.index[i] = normalize_L2(ChunkEmbedding(batch[i]))
                    /\ store.documents[i] = batch[i]
                    /\ store.metadata[i] = Metadata(f, i - 1)
              /\ WholeBatches(Store(SubSeq(store.index, n + 1, Len(store.index)),
                                    SubSeq(store.documents, n + 1, Len(store.documents)),
                                    SubSeq(store.metadata, n + 1, Len(store.metadata))))

\* The uploads that have added the vectors of a batch and not yet all of
\* its documents and metadata.
MidBatch == {h \in Uploads : tasks[h].pc \in {"documents.extend", "metadata.extend"}}

\* C12: the add_documents batches of two concurrent uploads never
\* interleave, and every search reads the index, documents and metadata of a
\* state between whole batches.
C12_BatchesNeverInterleave ==
    /\ Cardinality(MidBatch) <= 1
    /\ MidBatch = {} => WholeBatches(TheStore)
    /\ seen # None => WholeBatches(seen[1])

\* C12: a search has read a store that holds the batch of one upload while
\* the other upload is suspended at its await.
C12_Witness ==
    /\ seen # None
    /\ seen[1].documents # <<>>
    /\ \E h \in Uploads : tasks[h].pc = "embed" /\ current # Some(h)

====
